---- MODULE Spec2Model ----
(***************************************************************************)
(* Sit-to-rise test (SRT) video analysis service.                          *)
(*                                                                         *)
(* The model follows the JavaScript sources:                               *)
(*   services/tensorflowService.js  pose geometry, phase segmentation,     *)
(*                                   support detection, scoring, feedback  *)
(*   services/videoService.js       frame extraction, sampling, cleanup    *)
(*   controllers/srtController.js   analyzeVideo request handler           *)
(*                                                                         *)
(* JavaScript numbers are modelled as exact rationals extended with NaN    *)
(* and the two infinities: a number is a pair <<n, d>>, d > 0 for the      *)
(* rational n/d, and d = 0 for the special values (<<0,0>> is NaN,         *)
(* <<1,0>> is +Infinity, <<-1,0>> is -Infinity).  Rounding of IEEE doubles *)
(* is not modelled; every formula below is exact.                          *)
(***************************************************************************)
EXTENDS Integers, Sequences, FiniteSets, TLC

(***************************************************************************)
(* Numbers                                                                 *)
(***************************************************************************)
NaN == <<0, 0>>
PosInf == <<1, 0>>
NegInf == <<-1, 0>>

IAbs(i) == IF i < 0 THEN -i ELSE i
ISign(i) == IF i < 0 THEN -1 ELSE IF i = 0 THEN 0 ELSE 1

RECURSIVE GCD(_, _)
GCD(a, b) == IF b = 0 THEN a ELSE GCD(b, a % b)

\* The rational n/d in lowest terms, d # 0.
Norm(n, d) ==
  LET g == GCD(IAbs(n), IAbs(d))
      s == ISign(d)
  IN  <<(s * n) \div g, (s * d) \div g>>

Num(i) == <<i, 1>>
Rat(n, d) == Norm(n, d)

IsNaN(x) == x[1] = 0 /\ x[2] = 0
IsFinite(x) == x[2] # 0

Neg(a) == <<-a[1], a[2]>>

Add(a, b) ==
  IF IsFinite(a) /\ IsFinite(b)
    THEN IF a[2] = b[2]
           THEN <<a[1] + b[1], a[2]>>
           ELSE LET g == GCD(a[2], b[2])
                IN  Norm(a[1] * (b[2] \div g) + b[1] * (a[2] \div g),
                         (a[2] \div g) * b[2])
    ELSE IF IsNaN(a) \/ IsNaN(b) THEN NaN
    ELSE IF IsFinite(a) THEN b
    ELSE IF IsFinite(b) THEN a
    ELSE IF a = b THEN a ELSE NaN

Sub(a, b) == Add(a, Neg(b))

Mul(a, b) ==
  IF IsFinite(a) /\ IsFinite(b)
    THEN LET g1 == GCD(IAbs(a[1]), b[2])
             g2 == GCD(IAbs(b[1]), a[2])
         IN  Norm((a[1] \div g1) * (b[1] \div g2), (a[2] \div g2) * (b[2] \div g1))
    ELSE IF IsNaN(a) \/ IsNaN(b) THEN NaN
    ELSE IF a[1] * b[1] = 0 THEN NaN
    ELSE <<ISign(a[1]) * ISign(b[1]), 0>>

\* 1/b; 1/0 is +Infinity (the sign of a zero is not modelled).
Recip(b) ==
  IF IsNaN(b) THEN NaN
  ELSE IF ~IsFinite(b) THEN Num(0)
  ELSE IF b[1] = 0 THEN PosInf
  ELSE <<ISign(b[1]) * b[2], IAbs(b[1])>>

Div(a, b) == Mul(a, Recip(b))

\* a < b as JavaScript compares numbers: false when either is NaN.
Lt(a, b) ==
  /\ ~IsNaN(a)
  /\ ~IsNaN(b)
  /\ IF IsFinite(a) /\ IsFinite(b) THEN a[1] * b[2] < b[1] * a[2]
     ELSE IF IsFinite(a) THEN b[1] > 0
     ELSE IF IsFinite(b) THEN a[1] < 0
     ELSE a[1] < b[1]

Gt(a, b) == Lt(b, a)

\* a === b on numbers: false when either is NaN.
Eq(a, b) ==
  /\ ~IsNaN(a)
  /\ ~IsNaN(b)
  /\ IF IsFinite(a) /\ IsFinite(b) THEN a[1] * b[2] = b[1] * a[2]
     ELSE a = b

Le(a, b) == Lt(a, b) \/ Eq(a, b)
Ge(a, b) == Le(b, a)

MathMax(a, b) == IF IsNaN(a) \/ IsNaN(b) THEN NaN ELSE IF Lt(a, b) THEN b ELSE a
MathMin(a, b) == IF IsNaN(a) \/ IsNaN(b) THEN NaN ELSE IF Lt(b, a) THEN b ELSE a
MathAbs(a) == <<IAbs(a[1]), a[2]>>

\* Number(x.toFixed(2)) for a finite x >= 0: x rounded to two decimals.
ToFixed2(x) ==
  IF ~IsFinite(x) THEN x
  ELSE Norm((200 * x[1] + x[2]) \div (2 * x[2]), 100)

\* Math.floor(k / 2) and Array.prototype.slice's truncation of k / 2.
IFloorHalf(k) == k \div 2
IMax(a, b) == IF a < b THEN b ELSE a
IMin(a, b) == IF a < b THEN a ELSE b

(***************************************************************************)
(* Configuration constants                                                 *)
(***************************************************************************)
KEYPOINT_CONFIDENCE_THRESHOLD == Rat(3, 10)
MAX_SCORE == 5
SUPPORT_PENALTIES == [HAND |-> Num(1), KNEE |-> Rat(1, 2)]
SCORE_CONFIG ==
  [MIN_PHASE_SCORE |-> Rat(3, 2), PENALTY_FACTOR |-> Rat(6, 10), DEFAULT_HIP_DRIVE |-> Rat(3, 10)]
minFramesPerPhase == 10
CONFIG_MAX_FRAMES == 40

(***************************************************************************)
(* Poses.  A keypoint is a record with x, y and score; a landmark the      *)
(* detector did not return is the record Absent (find() gives undefined).  *)
(* A frame for which estimatePoses returned no pose is NoPose (poses[0] is *)
(* undefined).                                                             *)
(***************************************************************************)
KpNames ==
  {"right_shoulder", "right_hip", "right_knee", "right_ankle",
   "left_wrist", "right_wrist", "left_knee"}
KpOrder ==
  <<"right_shoulder", "right_hip", "right_knee", "right_ankle",
    "left_wrist", "right_wrist", "left_knee">>

Absent == [present |-> FALSE, x |-> NaN, y |-> NaN, score |-> NaN]
Kp(x, y, conf) == [present |-> TRUE, x |-> x, y |-> y, score |-> Rat(conf, 100)]
P(x, y, conf) == Kp(Num(x), Num(y), conf)

NoPose == [defined |-> FALSE, keypoints |-> [k \in KpNames |-> Absent], width |-> NaN, height |-> NaN]
MkPose(sh, hip, knee, ankle, lw, rw, lk, w, h) ==
  [defined |-> TRUE,
   keypoints |-> [k \in KpNames |->
      CASE k = "right_shoulder" -> sh
        [] k = "right_hip" -> hip
        [] k = "right_knee" -> knee
        [] k = "right_ankle" -> ankle
        [] k = "left_wrist" -> lw
        [] k = "right_wrist" -> rw
        [] k = "left_knee" -> lk],
   width |-> w, height |-> h]

\* pose.keypoints.find((kp) => kp.name === name)
Find(pose, name) == pose.keypoints[name]

\* kp?.score > KEYPOINT_CONFIDENCE_THRESHOLD
Confident(kp) == kp.present /\ Gt(kp.score, KEYPOINT_CONFIDENCE_THRESHOLD)

(***************************************************************************)
(* Geometry                                                                *)
(***************************************************************************)
\* arr.reduce((a, b) => a + b, 0) / arr.length.  The sum is exact, so it is
\* taken by halves to keep the evaluation shallow.
average(arr) ==
  LET RECURSIVE Sum(_, _)
      Sum(lo, hi) ==
        IF lo > hi THEN Num(0)
        ELSE IF lo = hi THEN Add(Num(0), arr[lo])
        ELSE Add(Sum(lo, (lo + hi) \div 2), Sum((lo + hi) \div 2 + 1, hi))
  IN  Div(Sum(1, Len(arr)), Num(Len(arr)))

isValidScore(score) == ~IsNaN(score) /\ Ge(score, Num(0)) /\ Le(score, Num(1))

safeScore(score, defaultValue) == IF isValidScore(score) THEN score ELSE defaultValue

\* Squared distance; sqrt(s) < 1 exactly when s < 1.
Dist2(p, q) ==
  Add(Mul(Sub(q.x, p.x), Sub(q.x, p.x)), Mul(Sub(q.y, p.y), Sub(q.y, p.y)))

validatePoints(p1, p2, p3) ==
  IF ~p1.present \/ ~p2.present \/ ~p3.present THEN FALSE
  ELSE IF IsNaN(p1.x) \/ IsNaN(p1.y) \/ IsNaN(p2.x) \/ IsNaN(p2.y) \/ IsNaN(p3.x) \/ IsNaN(p3.y)
    THEN FALSE
  ELSE IF Lt(Dist2(p1, p2), Num(1)) \/ Lt(Dist2(p2, p3), Num(1)) THEN FALSE
  ELSE TRUE

\* Math.atan2(dy, dx) in degrees.  It is exact on the eight rays of the
\* compass, which are the only rays the poses of this model form; any other
\* ray has no case here and stops the evaluation.
Atan2Deg(dy, dx) ==
  LET sy == ISign(dy[1])
      sx == ISign(dx[1])
      diag == Eq(MathAbs(dy), MathAbs(dx))
  IN  CASE sy = 0 /\ sx >= 0 -> 0
        [] sy = 0 /\ sx < 0 -> 180
        [] sx = 0 /\ sy > 0 -> 90
        [] sx = 0 /\ sy < 0 -> -90
        [] diag /\ sx > 0 /\ sy > 0 -> 45
        [] diag /\ sx < 0 /\ sy > 0 -> 135
        [] diag /\ sx > 0 /\ sy < 0 -> -45
        [] diag /\ sx < 0 /\ sy < 0 -> -135

calculateAngle(p1, p2, p3) ==
  IF ~validatePoints(p1, p2, p3) THEN Num(0)
  ELSE LET degrees == Atan2Deg(Sub(p3.y, p2.y), Sub(p3.x, p2.x))
                        - Atan2Deg(Sub(p1.y, p2.y), Sub(p1.x, p2.x))
           angle == Num(IAbs(degrees))
       IN  MathMin(Num(360), MathMax(Num(0), angle))

(***************************************************************************)
(* Per-frame metrics                                                       *)
(***************************************************************************)
analyzeSpinalAlignment(pose) ==
  LET shoulder == Find(pose, "right_shoulder")
      hip == Find(pose, "right_hip")
      knee == Find(pose, "right_knee")
  IN  IF shoulder.present /\ hip.present /\ knee.present
        THEN LET angle == calculateAngle(shoulder, hip, knee)
             IN  [angle |-> angle, score |-> Div(MathAbs(Sub(Num(180), angle)), Num(180))]
        ELSE [angle |-> Num(0), score |-> Num(0)]

analyzeKneeFlexion(pose) ==
  LET hip == Find(pose, "right_hip")
      knee == Find(pose, "right_knee")
      ankle == Find(pose, "right_ankle")
  IN  IF hip.present /\ knee.present /\ ankle.present
        THEN LET angle == calculateAngle(hip, knee, ankle)
             IN  [angle |-> angle,
                  score |-> IF Gt(angle, Num(90)) THEN Num(1) ELSE Div(angle, Num(90))]
        ELSE [angle |-> Num(0), score |-> Num(0)]

analyzeKneeExtension(pose) ==
  LET hip == Find(pose, "right_hip")
      knee == Find(pose, "right_knee")
      ankle == Find(pose, "right_ankle")
  IN  IF hip.present /\ knee.present /\ ankle.present
        THEN LET angle == calculateAngle(hip, knee, ankle)
             IN  [angle |-> angle,
                  score |-> IF Gt(angle, Num(160)) THEN Num(1) ELSE Div(angle, Num(160))]
        ELSE [angle |-> Num(0), score |-> Num(0)]

analyzeHipControl(pose) ==
  LET shoulder == Find(pose, "right_shoulder")
      hip == Find(pose, "right_hip")
      knee == Find(pose, "right_knee")
  IN  IF Confident(shoulder) /\ Confident(hip) /\ Confident(knee)
        THEN LET angle == calculateAngle(shoulder, hip, knee)
                 score == MathMax(Num(0), MathMin(Num(1),
                            IF Lt(angle, Num(30)) THEN Num(1)
                            ELSE Div(Sub(Num(90), angle), Num(60))))
             IN  [angle |-> angle, score |-> score]
        ELSE [angle |-> Num(0), score |-> Num(0)]

analyzeHipDrive(pose) ==
  LET shoulder == Find(pose, "right_shoulder")
      hip == Find(pose, "right_hip")
      knee == Find(pose, "right_knee")
      ankle == Find(pose, "right_ankle")
      default == [angle |-> Num(0), score |-> SCORE_CONFIG.DEFAULT_HIP_DRIVE]
  IN  IF ~(Confident(shoulder) /\ Confident(hip) /\ Confident(knee) /\ Confident(ankle))
        THEN default
      ELSE LET totalHeight == Sub(shoulder.y, ankle.y)
           IN  IF Le(totalHeight, Num(0)) THEN default
               ELSE LET hipProgress ==
                          MathMax(Num(0), MathMin(Num(1),
                            Div(Sub(ankle.y, hip.y), Sub(ankle.y, shoulder.y))))
                        verticalAlignment == Div(MathAbs(Sub(hip.x, ankle.x)), pose.width)
                        trunkAngle == calculateAngle(shoulder, hip, knee)
                        angleScore == MathMax(Num(0), MathMin(Num(1), Div(trunkAngle, Num(180))))
                        score == safeScore(
                                   Add(Add(Mul(hipProgress, Rat(5, 10)), Mul(angleScore, Rat(3, 10))),
                                       Mul(Sub(Num(1), verticalAlignment), Rat(2, 10))),
                                   SCORE_CONFIG.DEFAULT_HIP_DRIVE)
                    IN  [angle |-> trunkAngle, score |-> score]

analyzeStability(pose) ==
  LET ankle == Find(pose, "right_ankle")
      hip == Find(pose, "right_hip")
      shoulder == Find(pose, "right_shoulder")
  IN  IF ankle.present /\ hip.present /\ shoulder.present
        THEN LET verticalDeviation ==
                   Add(MathAbs(Sub(shoulder.x, hip.x)), MathAbs(Sub(hip.x, ankle.x)))
             IN  [deviation |-> verticalDeviation,
                  score |-> MathMax(Num(0), Sub(Num(1), Div(verticalDeviation, Num(100))))]
        ELSE [deviation |-> Num(0), score |-> Num(0)]

(***************************************************************************)
(* Support detection (one frame)                                           *)
(***************************************************************************)
detectSupportPoints(pose) ==
  LET RECURSIVE MaxY(_)
      \* Math.max(...ys) over the keypoints above the confidence threshold;
      \* Math.max() of no arguments is -Infinity.
      MaxY(k) ==
        IF k = 0 THEN NegInf
        ELSE LET kp == pose.keypoints[KpOrder[k]]
             IN  IF Confident(kp) THEN MathMax(MaxY(k - 1), kp.y) ELSE MaxY(k - 1)
      groundLevel == MaxY(Len(KpOrder))
      handSupportThreshold == Sub(groundLevel, Mul(pose.height, Rat(3, 10)))
      kneeSupportThreshold == Sub(groundLevel, Mul(pose.height, Rat(2, 10)))
      hand == \E w \in {"left_wrist", "right_wrist"} :
                Confident(Find(pose, w)) /\ Gt(Find(pose, w).y, handSupportThreshold)
      knee == \E k \in {"left_knee", "right_knee"} :
                Confident(Find(pose, k)) /\ Gt(Find(pose, k).y, kneeSupportThreshold)
  IN  (IF hand THEN {"HAND"} ELSE {}) \cup (IF knee THEN {"KNEE"} ELSE {})

(***************************************************************************)
(* Phase segmentation.  Arrays are 1-based sequences here; the indices the *)
(* code computes are 0-based and are kept 0-based (At reads poses[i]).     *)
(***************************************************************************)
At(arr, i) == arr[i + 1]

\* arr.slice(from, to) with 0 <= from and to clipped to the length.
Slice(arr, from, to) ==
  LET hi == IMin(to, Len(arr))
  IN  IF from >= hi THEN << >> ELSE [k \in 1..(hi - from) |-> arr[from + k]]

\* Reading .keypoints of an undefined pose is a TypeError.
ReadsUndefined(poses) == \E k \in 1..Len(poses) : ~poses[k].defined

detectPhaseTransition(poses) ==
  LET n == Len(poses)
      start == [transitionFrame |-> IFloorHalf(n), maxHipMovement |-> Num(0),
                maxHipY |-> NegInf, lowestHipFrame |-> 0]
      Step(acc, i) ==
        LET prevHip == Find(At(poses, i - 1), "right_hip")
            currentHip == Find(At(poses, i), "right_hip")
            nextHip == Find(At(poses, i + 1), "right_hip")
        IN  IF Confident(prevHip) /\ Confident(currentHip) /\ Confident(nextHip)
              THEN LET movement == MathAbs(Sub(nextHip.y, prevHip.y))
                       moved == Gt(movement, acc.maxHipMovement)
                       lower == Gt(currentHip.y, acc.maxHipY)
                   IN  [transitionFrame |-> IF moved THEN i ELSE acc.transitionFrame,
                        maxHipMovement |-> IF moved THEN movement ELSE acc.maxHipMovement,
                        maxHipY |-> IF lower THEN currentHip.y ELSE acc.maxHipY,
                        lowestHipFrame |-> IF lower THEN i ELSE acc.lowestHipFrame]
              ELSE acc
      RECURSIVE Loop(_, _, _)
      \* The accumulators after the iterations i = lo .. hi, in this order,
      \* started from acc.  The range is halved, and the first half is
      \* evaluated (its frame index read) before the second half starts, so
      \* that the evaluation stays shallow; the test is always true.
      Loop(acc, lo, hi) ==
        IF lo > hi THEN acc
        ELSE IF lo = hi THEN Step(acc, lo)
        ELSE LET firstHalf == Loop(acc, lo, (lo + hi) \div 2)
             IN  IF firstHalf.lowestHipFrame >= 0
                   THEN Loop(firstHalf, (lo + hi) \div 2 + 1, hi)
                   ELSE firstHalf
      final == Loop(start, 1, n - 2)
  IN  IF IAbs(final.lowestHipFrame - final.transitionFrame) < 5
        THEN final.lowestHipFrame
        ELSE final.transitionFrame

\* The loop of detectPhaseTransition reads poses[i-1], poses[i], poses[i+1]
\* for i = 1 .. n-2: every pose, when n >= 3.
detectPhaseTransitionThrows(poses) == Len(poses) >= 3 /\ ReadsUndefined(poses)

SittingFrame(pose) ==
  [kneeFlexion |-> analyzeKneeFlexion(pose),
   hipControl |-> analyzeHipControl(pose),
   spinalAlignment |-> analyzeSpinalAlignment(pose)]

RisingFrame(pose) ==
  [kneeExtension |-> analyzeKneeExtension(pose),
   hipDrive |-> analyzeHipDrive(pose),
   stability |-> analyzeStability(pose)]

(***************************************************************************)
(* The poses the detector returns in this model.  Coordinates are image    *)
(* pixels (y grows downwards) in 200 x 200 frames.                         *)
(***************************************************************************)
FrameSize == Num(200)

\* standing upright, hands at the hips
Standing ==
  MkPose(P(100, 40, 90), P(100, 100, 90), P(100, 140, 90), P(100, 180, 90),
         P(100, 100, 90), P(100, 100, 90), P(100, 140, 90), FrameSize, FrameSize)
\* seated, thighs horizontal, hands raised
Seated ==
  MkPose(P(100, 80, 90), P(100, 140, 90), P(140, 140, 90), P(140, 180, 90),
         P(100, 100, 90), P(100, 100, 90), P(140, 140, 90), FrameSize, FrameSize)
\* seated with the right hand on the floor
SeatedHand ==
  MkPose(P(100, 80, 90), P(100, 140, 90), P(140, 140, 90), P(140, 180, 90),
         P(100, 100, 90), P(100, 170, 90), P(140, 140, 90), FrameSize, FrameSize)
\* kneeling on the right knee
Kneeling ==
  MkPose(P(100, 60, 90), P(100, 120, 90), P(100, 180, 90), P(140, 180, 90),
         P(100, 100, 90), P(100, 100, 90), P(100, 180, 90), FrameSize, FrameSize)
\* kneeling with a hand on the floor
KneelingHand ==
  MkPose(P(100, 60, 90), P(100, 120, 90), P(100, 180, 90), P(140, 180, 90),
         P(140, 180, 90), P(100, 100, 90), P(100, 180, 90), FrameSize, FrameSize)
\* shoulder below the ankle in the image (shoulder.y > ankle.y)
Inverted ==
  MkPose(P(100, 180, 90), P(100, 120, 90), P(100, 80, 90), P(100, 40, 90),
         P(100, 100, 90), P(100, 100, 90), P(100, 80, 90), FrameSize, FrameSize)
\* trunk folded onto the thigh: shoulder and knee on the same ray from the hip
Folded ==
  MkPose(P(100, 60, 90), P(100, 120, 90), P(100, 80, 90), P(100, 140, 90),
         P(100, 60, 90), P(100, 60, 90), P(100, 80, 90), FrameSize, FrameSize)
\* standing, every keypoint below the confidence threshold
LowConfidence ==
  MkPose(P(100, 40, 10), P(100, 100, 10), P(100, 140, 10), P(100, 180, 10),
         P(100, 100, 10), P(100, 100, 10), P(100, 140, 10), FrameSize, FrameSize)
\* standing, the hip and the wrists not returned
Partial ==
  MkPose(P(100, 40, 90), Absent, P(100, 140, 90), P(100, 180, 90),
         Absent, Absent, P(100, 140, 90), FrameSize, FrameSize)
\* as Inverted, the pose carrying no width and height (undefined * k is NaN)
NoSize ==
  MkPose(P(100, 180, 90), P(100, 120, 90), P(100, 80, 90), P(100, 40, 90),
         P(100, 100, 90), P(100, 100, 90), P(100, 80, 90), NaN, NaN)
\* standing, the shoulder's x not a number
NaNCoordinate ==
  MkPose(Kp(NaN, Num(40), 90), P(100, 100, 90), P(100, 140, 90), P(100, 180, 90),
         P(100, 100, 90), P(100, 100, 90), P(100, 140, 90), FrameSize, FrameSize)

\* crouched, trunk and shank at 45 degrees to the thigh
Crouched ==
  MkPose(P(140, 80, 90), P(100, 120, 90), P(140, 120, 90), P(100, 160, 90),
         P(100, 100, 90), P(100, 100, 90), P(140, 120, 90), FrameSize, FrameSize)

PoseTable ==
  <<Standing, Seated, SeatedHand, Kneeling, KneelingHand, Inverted, Folded,
    LowConfidence, Partial, NoSize, NaNCoordinate, Crouched>>
PoseKinds == DOMAIN PoseTable

\* Kind 0 is a frame without a detection.
PoseOf(kind) == IF kind = 0 THEN NoPose ELSE PoseTable[kind]
PoseSet == {PoseTable[k] : k \in PoseKinds}

\* The per-frame results, tabulated once per pose of the table.
SittingFrameOf == [p \in PoseSet |-> SittingFrame(p)]
RisingFrameOf == [p \in PoseSet |-> RisingFrame(p)]
SupportOf == [p \in PoseSet |-> detectSupportPoints(p)]

analyzeSittingPhase(poses) == [k \in 1..Len(poses) |-> SittingFrameOf[poses[k]]]
analyzeRisingPhase(poses) == [k \in 1..Len(poses) |-> RisingFrameOf[poses[k]]]

(***************************************************************************)
(* Score aggregation                                                       *)
(***************************************************************************)
\* arr.map(f) for a sequence
Map(arr, F(_)) == [k \in 1..Len(arr) |-> F(arr[k])]

IsNumber(score) == ~IsNaN(score)

safeAverage(scores, minRequired) ==
  LET validScores == SelectSeq(scores, IsNumber)
  IN  IF Len(validScores) >= minRequired
        THEN average(validScores)
        ELSE SCORE_CONFIG.DEFAULT_HIP_DRIVE

Clamp01(x) == MathMax(Num(0), MathMin(Num(1), x))

calculateComponentScores(sittingPhase, risingPhase) ==
  LET Spinal13(p) == Mul(p.spinalAlignment.score, Rat(13, 10))
      Stability12(p) == Mul(p.stability.score, Rat(12, 10))
      HipControl14(p) == Mul(p.hipControl.score, Rat(14, 10))
      Stability13(p) == Mul(p.stability.score, Rat(13, 10))
      KneeFlexion11(p) == Mul(p.kneeFlexion.score, Rat(11, 10))
      KneeExtension11(p) == Mul(p.kneeExtension.score, Rat(11, 10))
      HipDrive12(p) == Mul(p.hipDrive.score, Rat(12, 10))
  IN  [posturalControl |->
         Clamp01(safeAverage(Map(sittingPhase, Spinal13) \o Map(risingPhase, Stability12), 3)),
       balance |->
         Clamp01(safeAverage(Map(sittingPhase, HipControl14) \o Map(risingPhase, Stability13), 3)),
       coordination |->
         Clamp01(safeAverage(Map(sittingPhase, KneeFlexion11)
                               \o Map(risingPhase, KneeExtension11)
                               \o Map(risingPhase, HipDrive12), 3))]


\* A faulty calculatePhaseScores: the penalised scores are capped at
\* MAX_SCORE but not floored at MIN_PHASE_SCORE.
calculatePhaseScoresNoFloor(sittingPhase, risingPhase, supportPenalty) ==
  LET rawSitScore ==
        MathMax(SCORE_CONFIG.MIN_PHASE_SCORE,
          Mul(Add(Add(Mul(sittingPhase.kneeFlexion, Rat(35, 100)),
                      Mul(sittingPhase.hipControl, Rat(35, 100))),
                  Mul(sittingPhase.spinalAlignment, Rat(3, 10))),
              Num(MAX_SCORE)))
      rawRiseScore ==
        MathMax(SCORE_CONFIG.MIN_PHASE_SCORE,
          Mul(Add(Add(Mul(risingPhase.kneeExtension, Rat(3, 10)),
                      Mul(risingPhase.hipDrive, Rat(4, 10))),
                  Mul(risingPhase.stability, Rat(3, 10))),
              Num(MAX_SCORE)))
      sitScore ==
        MathMin(Num(MAX_SCORE),
          Sub(rawSitScore, Mul(supportPenalty.sitting, SCORE_CONFIG.PENALTY_FACTOR)))
      riseScore ==
        MathMin(Num(MAX_SCORE),
          Sub(rawRiseScore, Mul(supportPenalty.rising, SCORE_CONFIG.PENALTY_FACTOR)))
  IN  [sitScore |-> ToFixed2(sitScore),
       riseScore |-> ToFixed2(riseScore),
       totalScore |-> ToFixed2(MathMin(Num(10), Add(sitScore, riseScore)))]

calculatePhaseScores(sittingPhase, risingPhase, supportPenalty) ==
  LET rawSitScore ==
        MathMax(SCORE_CONFIG.MIN_PHASE_SCORE,
          Mul(Add(Add(Mul(sittingPhase.kneeFlexion, Rat(35, 100)),
                      Mul(sittingPhase.hipControl, Rat(35, 100))),
                  Mul(sittingPhase.spinalAlignment, Rat(3, 10))),
              Num(MAX_SCORE)))
      rawRiseScore ==
        MathMax(SCORE_CONFIG.MIN_PHASE_SCORE,
          Mul(Add(Add(Mul(risingPhase.kneeExtension, Rat(3, 10)),
                      Mul(risingPhase.hipDrive, Rat(4, 10))),
                  Mul(risingPhase.stability, Rat(3, 10))),
              Num(MAX_SCORE)))
      sitScore ==
        MathMax(SCORE_CONFIG.MIN_PHASE_SCORE,
          MathMin(Num(MAX_SCORE),
            Sub(rawSitScore, Mul(supportPenalty.sitting, SCORE_CONFIG.PENALTY_FACTOR))))
      riseScore ==
        MathMax(SCORE_CONFIG.MIN_PHASE_SCORE,
          MathMin(Num(MAX_SCORE),
            Sub(rawRiseScore, Mul(supportPenalty.rising, SCORE_CONFIG.PENALTY_FACTOR))))
  IN  [sitScore |-> ToFixed2(sitScore),
       riseScore |-> ToFixed2(riseScore),
       totalScore |-> ToFixed2(MathMin(Num(10), Add(sitScore, riseScore)))]


\* A faulty calculatePhasePenalty: the penalties carry the wrong sign.
calculatePhasePenaltyNegated(phaseSupports) ==
  LET uniqueSupports == UNION {phaseSupports[k] : k \in 1..Len(phaseSupports)}
  IN  Neg(Add(IF "HAND" \in uniqueSupports THEN SUPPORT_PENALTIES.HAND ELSE Num(0),
              IF "KNEE" \in uniqueSupports THEN SUPPORT_PENALTIES.KNEE ELSE Num(0)))

calculatePhasePenalty(phaseSupports) ==
  LET uniqueSupports == UNION {phaseSupports[k] : k \in 1..Len(phaseSupports)}
  IN  Add(IF "HAND" \in uniqueSupports THEN SUPPORT_PENALTIES.HAND ELSE Num(0),
          IF "KNEE" \in uniqueSupports THEN SUPPORT_PENALTIES.KNEE ELSE Num(0))

\* slice(0, length / 2) and slice(length / 2): slice truncates a fractional index.
calculateSupportPenalty(supportPoints) ==
  LET half == IFloorHalf(Len(supportPoints))
  IN  [sitting |-> calculatePhasePenalty(Slice(supportPoints, 0, half)),
       rising |-> calculatePhasePenalty(Slice(supportPoints, half, Len(supportPoints)))]

(***************************************************************************)
(* Feedback                                                                *)
(***************************************************************************)
EXCELLENT_THRESHOLD == Rat(8, 10)
GOOD_THRESHOLD == Rat(6, 10)
IMPROVEMENT_THRESHOLD == Rat(4, 10)

\* A faulty uniqueSupportsOf: only the supports of the first half of the
\* frames are collected.
uniqueSupportsOfFirstHalf(supportPoints) ==
  LET half == Slice(supportPoints, 0, IFloorHalf(Len(supportPoints)))
      all == UNION {half[k] : k \in 1..Len(half)}
      firstWith == CHOOSE k \in 1..Len(half) :
                     /\ half[k] # {}
                     /\ \A j \in 1..(k - 1) : half[j] = {}
  IN  IF all = {} THEN << >>
      ELSE IF all = {"HAND"} THEN <<"HAND">>
      ELSE IF all = {"KNEE"} THEN <<"KNEE">>
      ELSE IF "HAND" \in half[firstWith] THEN <<"HAND", "KNEE">>
      ELSE <<"KNEE", "HAND">>

\* Array.from(new Set(supportPoints.flat())): the support types in the order
\* of their first appearance; within one frame HAND precedes KNEE.
uniqueSupportsOf(supportPoints) ==
  LET all == UNION {supportPoints[k] : k \in 1..Len(supportPoints)}
      firstWith == CHOOSE k \in 1..Len(supportPoints) :
                     /\ supportPoints[k] # {}
                     /\ \A j \in 1..(k - 1) : supportPoints[j] = {}
  IN  IF all = {} THEN << >>
      ELSE IF all = {"HAND"} THEN <<"HAND">>
      ELSE IF all = {"KNEE"} THEN <<"KNEE">>
      ELSE IF "HAND" \in supportPoints[firstWith] THEN <<"HAND", "KNEE">>
      ELSE <<"KNEE", "HAND">>

\* `Used ${supportTypes.join(" and ")} for support`
SupportImprovement(supportTypes) ==
  CASE supportTypes = <<"HAND">> -> "Used HAND for support"
    [] supportTypes = <<"KNEE">> -> "Used KNEE for support"
    [] supportTypes = <<"HAND", "KNEE">> -> "Used HAND and KNEE for support"
    [] supportTypes = <<"KNEE", "HAND">> -> "Used KNEE and HAND for support"

generateDetailedFeedback(sittingScores, risingScores, componentScores, supportPoints) ==
  LET knee ==
        IF Gt(sittingScores.kneeFlexion, EXCELLENT_THRESHOLD)
          THEN [s |-> <<"Excellent knee control during sitting">>, i |-> << >>, r |-> << >>]
        ELSE IF Lt(sittingScores.kneeFlexion, IMPROVEMENT_THRESHOLD)
          THEN [s |-> << >>, i |-> <<"Work on controlled descent while sitting">>,
                r |-> <<"Practice slow, controlled squats with proper form">>]
        ELSE [s |-> << >>, i |-> << >>, r |-> << >>]
      hip ==
        IF Gt(risingScores.hipDrive, EXCELLENT_THRESHOLD)
          THEN [s |-> <<"Strong hip drive during rising">>, i |-> << >>, r |-> << >>]
        ELSE IF Lt(risingScores.hipDrive, IMPROVEMENT_THRESHOLD)
          THEN [s |-> << >>, i |-> <<"Need to improve hip drive strength">>,
                r |-> <<"Practice hip thrust exercises to build strength">>]
        ELSE [s |-> << >>, i |-> << >>, r |-> << >>]
      balance ==
        IF Lt(componentScores.balance, GOOD_THRESHOLD)
          THEN IF Lt(componentScores.balance, IMPROVEMENT_THRESHOLD)
                 THEN [s |-> << >>, i |-> <<"Significant balance improvement needed">>,
                       r |-> <<"Start with supported single-leg stance exercises">>]
                 ELSE [s |-> << >>, i |-> <<"Balance needs some improvement">>,
                       r |-> <<"Practice single-leg standing exercises">>]
          ELSE [s |-> << >>, i |-> << >>, r |-> << >>]
      posture ==
        IF Lt(componentScores.posturalControl, GOOD_THRESHOLD)
          THEN IF Lt(sittingScores.spinalAlignment, IMPROVEMENT_THRESHOLD)
                 THEN [s |-> << >>, i |-> <<"Focus on maintaining spinal alignment">>,
                       r |-> <<"Practice wall sits with proper back alignment">>]
                 ELSE [s |-> << >>, i |-> <<"Work on maintaining better posture">>,
                       r |-> <<"Practice plank exercises for core strength">>]
          ELSE [s |-> << >>, i |-> << >>, r |-> << >>]
      supportTypes == uniqueSupportsOf(supportPoints)
      support ==
        IF Len(supportTypes) = 0
          THEN [s |-> <<"Excellent form - no supports needed">>, i |-> << >>, r |-> << >>]
          ELSE [s |-> << >>, i |-> <<SupportImprovement(supportTypes)>>,
                r |-> IF \E k \in 1..Len(supportTypes) : supportTypes[k] = "HAND"
                        THEN <<"Practice the movement with arms crossed over chest">>
                        ELSE <<"Practice the movement without knee support">>]
  IN  [strengths |-> knee.s \o hip.s \o balance.s \o posture.s \o support.s,
       improvements |-> knee.i \o hip.i \o balance.i \o posture.i \o support.i,
       recommendations |-> knee.r \o hip.r \o balance.r \o posture.r \o support.r]

(***************************************************************************)
(* Frame sampling (videoService.js)                                        *)
(***************************************************************************)
ICeilDiv(a, b) == (a + b - 1) \div b


\* A faulty sampleFrames: the loop runs while i < frames.length.
sampleFramesToEnd(frames) ==
  IF Len(frames) <= CONFIG_MAX_FRAMES THEN frames
  ELSE LET n == Len(frames)
           step == ICeilDiv(n, CONFIG_MAX_FRAMES)
           middle == Cardinality({k \in 1..n : k * step < n})
       IN  <<At(frames, 0)>> \o [k \in 1..middle |-> At(frames, k * step)] \o <<At(frames, n - 1)>>

sampleFrames(frames) ==
  IF Len(frames) <= CONFIG_MAX_FRAMES THEN frames
  ELSE LET n == Len(frames)
           step == ICeilDiv(n, CONFIG_MAX_FRAMES)
           \* the loop indices i = step, 2 * step, ... while i < n - step
           middle == Cardinality({k \in 1..n : k * step < n - step})
       IN  <<At(frames, 0)>> \o [k \in 1..middle |-> At(frames, k * step)] \o <<At(frames, n - 1)>>

(***************************************************************************)
(* analyzeSRTVideo, from the join of the pose estimations to its return    *)
(***************************************************************************)
INSUFFICIENT_FRAMES == "Insufficient frames for analysis. Minimum required: 20"
TYPE_ERROR == "TypeError: Cannot read properties of undefined (reading 'keypoints')"
DECODE_ERROR == "ffmpeg: cannot open the video or read its duration"
FAILED_TO_ANALYZE == "Failed to analyze video"

\* catch (error) { console.error(..., error); throw new Error("Failed to analyze video") }
\* The caller sees the message; the cause is only logged.
Failure(cause) == [ok |-> FALSE, message |-> FAILED_TO_ANALYZE, cause |-> cause]


\* A faulty end of the sitting slice: poseAnalyses.slice(0, transitionFrame).
SittingEndAtTransition(n, transitionFrame) == transitionFrame

SittingEnd(n, transitionFrame) == IMax(minFramesPerPhase, transitionFrame)

\* A faulty start of the rising slice: Math.max in place of Math.min.
RisingStartMax(n, transitionFrame) == IMax(n - minFramesPerPhase, transitionFrame)

RisingStart(n, transitionFrame) == IMin(n - minFramesPerPhase, transitionFrame)

Indices(n) == [k \in 1..n |-> k - 1]
Pick(arr, idx) == [k \in 1..Len(idx) |-> At(arr, idx[k])]

ScoreOf(frame, metric) == frame[metric].score
AverageOf(phase, metric) ==
  safeScore(average([k \in 1..Len(phase) |-> ScoreOf(phase[k], metric)]), Num(0))

\* analyzeSRTVideo binds its constants in sequence; each stage below binds
\* the constants named by its last parameters and hands them on.

\* The scores analyzeSRTVideo computes in line before it calls
\* calculatePhaseScores: safeScore(..., 1) for the raw scores, penalty factor
\* 0.8, floor 1, total within [2, 10], no rounding.  No statement of
\* analyzeSRTVideo reads them afterwards.
inlinePhaseScores(sittingScores, risingScores, supportPenalty) ==
  LET rawSitScore ==
        safeScore(
          Mul(Add(Add(Mul(sittingScores.kneeFlexion, Rat(35, 100)),
                      Mul(sittingScores.hipControl, Rat(35, 100))),
                  Mul(sittingScores.spinalAlignment, Rat(3, 10))),
              Num(MAX_SCORE)),
          Num(1))
      rawRiseScore ==
        safeScore(
          Mul(Add(Add(Mul(risingScores.kneeExtension, Rat(3, 10)),
                      Mul(risingScores.hipDrive, Rat(4, 10))),
                  Mul(risingScores.stability, Rat(3, 10))),
              Num(MAX_SCORE)),
          Num(1))
      sitScore ==
        MathMax(Num(1),
          MathMin(Num(MAX_SCORE), Sub(rawSitScore, Mul(supportPenalty.sitting, Rat(8, 10)))))
      riseScore ==
        MathMax(Num(1),
          MathMin(Num(MAX_SCORE), Sub(rawRiseScore, Mul(supportPenalty.rising, Rat(8, 10)))))
  IN  [sitScore |-> sitScore,
       riseScore |-> riseScore,
       totalScore |-> MathMax(Num(2), MathMin(Num(10), Add(sitScore, riseScore)))]

\* return { ...scores, ...componentScores, sittingPhase, risingPhase, ... }
analyzeReport(frames, transitionFrame, sittingIdx, risingIdx, supportPoints, supportPenalty, componentScores, sittingScores, risingScores, scores, feedback) ==
  [ok |-> TRUE, message |-> "", cause |-> "",
   sitScore |-> scores.sitScore,
   riseScore |-> scores.riseScore,
   totalScore |-> scores.totalScore,
   posturalControl |-> componentScores.posturalControl,
   balance |-> componentScores.balance,
   coordination |-> componentScores.coordination,
   sittingPhase |-> sittingScores,
   risingPhase |-> risingScores,
   feedback |-> feedback,
   keyFrames |-> frames,
   processingStatus |-> "completed",
   supportPointsUsed |-> supportPoints,
   performance |-> [frameCount |-> Len(frames), transitionFrame |-> transitionFrame],
   \* not part of the report: the locals the report was computed from
   locals |-> [sittingIdx |-> sittingIdx, risingIdx |-> risingIdx,
               supportPenalty |-> supportPenalty,
               inlineScores |-> inlinePhaseScores(sittingScores, risingScores,
                                                  supportPenalty)]]

\* A faulty analyzeAggregates: the report spreads the scores computed in
\* line instead of those of calculatePhaseScores.
analyzeAggregatesInline(frames, transitionFrame, sittingIdx, risingIdx, supportPoints, supportPenalty, componentScores, sittingScores, risingScores) ==
  analyzeReport(frames, transitionFrame, sittingIdx, risingIdx, supportPoints,
                supportPenalty, componentScores, sittingScores, risingScores,
                inlinePhaseScores(sittingScores, risingScores, supportPenalty),
                generateDetailedFeedback(sittingScores, risingScores, componentScores,
                                         supportPoints))

\* const scores = calculatePhaseScores(...); const feedback = generateDetailedFeedback(...)
analyzeAggregates(frames, transitionFrame, sittingIdx, risingIdx, supportPoints, supportPenalty, componentScores, sittingScores, risingScores) ==
  analyzeReport(frames, transitionFrame, sittingIdx, risingIdx, supportPoints,
                supportPenalty, componentScores, sittingScores, risingScores,
                calculatePhaseScores(sittingScores, risingScores, supportPenalty),
                generateDetailedFeedback(sittingScores, risingScores, componentScores,
                                         supportPoints))

\* const supportPenalty, componentScores, sittingScores, risingScores
analyzePhases(frames, transitionFrame, sittingIdx, risingIdx, supportPoints, sittingPhase, risingPhase) ==
  analyzeAggregates(frames, transitionFrame, sittingIdx, risingIdx, supportPoints,
    calculateSupportPenalty(supportPoints),
    calculateComponentScores(sittingPhase, risingPhase),
    [kneeFlexion |-> AverageOf(sittingPhase, "kneeFlexion"),
     hipControl |-> AverageOf(sittingPhase, "hipControl"),
     spinalAlignment |-> AverageOf(sittingPhase, "spinalAlignment")],
    [kneeExtension |-> AverageOf(risingPhase, "kneeExtension"),
     hipDrive |-> AverageOf(risingPhase, "hipDrive"),
     stability |-> AverageOf(risingPhase, "stability")])

\* const sittingPhase = analyzeSittingPhase(poseAnalyses.slice(0, max(10, t)))
\* const risingPhase = analyzeRisingPhase(poseAnalyses.slice(min(n - 10, t)))
\* const supportPoints = poseAnalyses.map(detectSupportPoints)
analyzeSegments(frames, poseAnalyses, transitionFrame, sittingIdx, risingIdx) ==
  analyzePhases(frames, transitionFrame, sittingIdx, risingIdx,
    [k \in 1..Len(poseAnalyses) |-> SupportOf[poseAnalyses[k]]],
    analyzeSittingPhase(Pick(poseAnalyses, sittingIdx)),
    analyzeRisingPhase(Pick(poseAnalyses, risingIdx)))

analyzeFrom(frames, poseAnalyses, transitionFrame) ==
  analyzeSegments(frames, poseAnalyses, transitionFrame,
    Slice(Indices(Len(poseAnalyses)), 0, SittingEnd(Len(poseAnalyses), transitionFrame)),
    Slice(Indices(Len(poseAnalyses)), RisingStart(Len(poseAnalyses), transitionFrame),
          Len(poseAnalyses)))

\* const transitionFrame = detectPhaseTransition(poseAnalyses)
analyzeScores(frames, poseAnalyses) ==
  analyzeFrom(frames, poseAnalyses, detectPhaseTransition(poseAnalyses))

analyzeSRTVideoAfterJoin(frames, poseAnalyses) ==
  IF Len(poseAnalyses) < minFramesPerPhase * 2 THEN Failure(INSUFFICIENT_FRAMES)
  ELSE IF detectPhaseTransitionThrows(poseAnalyses) THEN Failure(TYPE_ERROR)
  ELSE analyzeScores(frames, poseAnalyses)

(***************************************************************************)
(* The service: POST /analyse requests handled by analyzeVideo             *)
(***************************************************************************)
NumRequests == 2
MaxLen == 21
MaxExtracted == 100
MaxOutOfOrder == 2

Requests == 1..NumRequests

VARIABLES
  video,        \* per request: the uploaded video and what the detector sees in it
  pc,           \* per request: where its handler stands
  framesDirs,   \* requests whose uploads/frames-<timestamp> directory is on disk
  frames,       \* per request: the frame files extractFramesFromVideo resolved
  poseAnalyses, \* per request: the array Promise.all resolved, one entry per frame
  detectors,    \* number of pose detectors created in this process
  analysis,     \* per request: what analyzeSRTVideo returned or threw
  error,        \* per request: the error caught by analyzeVideo's catch
  records,      \* the SRTResult documents saved, in order
  response,     \* per request: what res.json sent
  forwarded,    \* per request: the error message passed to next()
  saveErrors,   \* requests for which "Error saving failed result" was logged
  estimations,  \* per request: the values Promise.all has collected so far, and
                \* the position of the frame whose estimation settled last
  transition,   \* a pose sequence handed to detectPhaseTransition on its own,
                \* and what the call returned
  triple        \* three points handed to calculateAngle on its own, and what
                \* the call returned

vars ==
  <<video, pc, framesDirs, frames, poseAnalyses, detectors, analysis, error,
    records, response, forwarded, saveErrors, estimations, transition, triple>>

\* A video: whether ffmpeg can decode it, how many frames the extraction
\* yields, and what the detector returns per extracted frame: no pose for the
\* frames in undetected, else kindA up to frame split and kindB after it.
MkVideo(decodable, extracted, kindA, kindB, split, undetected) ==
  [decodable |-> decodable, extracted |-> extracted, kindA |-> kindA,
   kindB |-> kindB, split |-> split, undetected |-> undetected]

PoseKindAt(v, f) ==
  IF f \in v.undetected THEN 0 ELSE IF f <= v.split THEN v.kindA ELSE v.kindB

NoVideo == MkVideo(FALSE, 0, 0, 0, 0, {})
NoAnalysis == [ok |-> FALSE, message |-> "", cause |-> ""]
NoResponse == [success |-> FALSE]

\* The slot of an estimation that has not settled, in the values array
\* Promise.all collects; before the estimations start there is no array.
Pending == -1
NoEstimations == [values |-> << >>, last |-> 0]

\* detectPhaseTransition has not been called on its own
NoTransition == [called |-> FALSE, poses |-> << >>, result |-> 0]

\* calculateAngle has not been called on its own
NoTriple == [called |-> FALSE, p1 |-> Absent, p2 |-> Absent, p3 |-> Absent, result |-> NaN]

ServiceVideos ==
  { MkVideo(FALSE, 0, 2, 1, 0, {}),
    MkVideo(TRUE, 15, 2, 1, 7, {}),
    MkVideo(TRUE, 25, 2, 1, 12, 16..25),
    MkVideo(TRUE, 21, 2, 1, 10, {11}),
    MkVideo(TRUE, 22, 3, 1, 11, {}) }

\* Where the subject changes pose: never, at either end, and around the
\* tenth frame on both sides, so that the detected transition falls before,
\* at and after the tenth pose and inside the last ten.
ScoreSplits(n) == {0, 1, 5, 9, 10, 11, 12, 16, n - 1, n}

ScoreVideos ==
  UNION { { MkVideo(TRUE, n, a, b, s, {}) :
              a \in PoseKinds, b \in PoseKinds, s \in ScoreSplits(n) } :
            n \in (minFramesPerPhase * 2)..MaxLen }

SampleVideos ==
  { MkVideo(TRUE, n, 2, 1, n \div 2, {}) : n \in 0..MaxExtracted }

\* Videos of the shortest lengths that reach the segmentation, with and
\* without an undetected frame, and one too short for it.
JoinVideos ==
  { MkVideo(TRUE, 2 * minFramesPerPhase, 2, 1, 9, {}),
    MkVideo(TRUE, 2 * minFramesPerPhase + 1, 3, 1, 12, {}),
    MkVideo(TRUE, 2 * minFramesPerPhase + 1, 2, 1, 10, {11}),
    MkVideo(TRUE, minFramesPerPhase + 5, 2, 1, 7, {}) }

InitWith(active, videos) ==
  /\ \E chosen \in [active -> videos] :
       video = [r \in Requests |-> IF r \in active THEN chosen[r] ELSE NoVideo]
  /\ pc = [r \in Requests |-> IF r \in active THEN "extract" ELSE "absent"]
  /\ framesDirs = {}
  /\ frames = [r \in Requests |-> << >>]
  /\ poseAnalyses = [r \in Requests |-> << >>]
  /\ detectors = 0
  /\ analysis = [r \in Requests |-> NoAnalysis]
  /\ error = [r \in Requests |-> ""]
  /\ records = << >>
  /\ response = [r \in Requests |-> NoResponse]
  /\ forwarded = [r \in Requests |-> ""]
  /\ saveErrors = {}
  /\ estimations = [r \in Requests |-> NoEstimations]
  /\ transition = NoTransition
  /\ triple = NoTriple

Init == InitWith(Requests, ServiceVideos)
InitScore == InitWith({1}, ScoreVideos)
InitSample == InitWith({1}, SampleVideos)
InitJoin == InitWith({1}, JoinVideos)

\* new SRTResult({... processingStatus: "completed"}): isNaN(x) ? 0 : Math.max(0, x)
NonNegative(x) == IF IsNaN(x) THEN Num(0) ELSE MathMax(Num(0), x)

CompletedRecord(r, a) ==
  [req |-> r,
   sitScore |-> NonNegative(a.sitScore),
   riseScore |-> NonNegative(a.riseScore),
   totalScore |-> NonNegative(a.totalScore),
   posturalControl |-> NonNegative(a.posturalControl),
   balance |-> NonNegative(a.balance),
   coordination |-> NonNegative(a.coordination),
   sittingPhase |-> [m \in DOMAIN a.sittingPhase |-> NonNegative(a.sittingPhase[m])],
   risingPhase |-> [m \in DOMAIN a.risingPhase |-> NonNegative(a.risingPhase[m])],
   feedback |-> a.feedback,
   keyFrames |-> a.keyFrames,
   processingStatus |-> "completed"]


\* A faulty failed record: processingStatus is left to the schema's default.
FailedRecordPending(r) ==
  [req |-> r,
   sitScore |-> Num(0),
   riseScore |-> Num(0),
   totalScore |-> Num(0),
   posturalControl |-> Num(0),
   balance |-> Num(0),
   coordination |-> Num(0),
   processingStatus |-> "pending"]

FailedRecord(r) ==
  [req |-> r,
   sitScore |-> Num(0),
   riseScore |-> Num(0),
   totalScore |-> Num(0),
   posturalControl |-> Num(0),
   balance |-> Num(0),
   coordination |-> Num(0),
   processingStatus |-> "failed"]

SAVE_ERROR == "MongoError: the document could not be saved"

\* extractFramesFromVideo: mkdir of the frames directory, ffprobe, ffmpeg,
\* readdir + numeric sort, sampleFrames.  A frame file is named by its number.
ExtractFrames(r) ==
  /\ pc[r] = "extract"
  /\ framesDirs' = framesDirs \cup {r}
  /\ IF video[r].decodable
       THEN /\ frames' = [frames EXCEPT ![r] = sampleFrames([k \in 1..video[r].extracted |-> k])]
            /\ pc' = [pc EXCEPT ![r] = "initializeDetector"]
            /\ UNCHANGED <<analysis, error, transition, triple>>
       ELSE /\ analysis' = [analysis EXCEPT ![r] = Failure(DECODE_ERROR)]
            /\ error' = [error EXCEPT ![r] = FAILED_TO_ANALYZE]
            /\ pc' = [pc EXCEPT ![r] = "saveFailed"]
            /\ UNCHANGED frames
  /\ UNCHANGED <<video, poseAnalyses, detectors, records, response, forwarded, saveErrors, estimations,
                 transition, triple>>

\* const detector = await initializeDetector()
InitializeDetector(r) ==
  /\ pc[r] = "initializeDetector"
  /\ detectors' = detectors + 1
  /\ pc' = [pc EXCEPT ![r] = "estimate"]
  /\ UNCHANGED <<video, framesDirs, frames, poseAnalyses, analysis, error, records,
                 response, forwarded, saveErrors, estimations, transition, triple>>

\* Promise.all over frames.map(analyzePoseInFrame): the values array has
\* one slot per frame, in frame order; a slot is Pending until the promise of
\* that frame settles.

\* the promise of frame position k resolves with value: Promise.all stores
\* it at index k, whatever has settled before
Settle(values, k, value) == [values EXCEPT ![k] = value]

\* A faulty join: the await returns as soon as one estimation has settled.
SomeSettled(values) == \E k \in 1..Len(values) : values[k] # Pending

\* Promise.all resolves when no promise is pending
AllSettled(values) == \A k \in 1..Len(values) : values[k] # Pending

\* poses[0] of the frame at position k: undefined (kind 0) when the detector
\* found no pose
EstimateOf(r, k) == PoseKindAt(video[r], frames[r][k])

\* await Promise.all(frames.map(analyzePoseInFrame)) taken as one step: every
\* estimation settles, the last frame's last.
EstimatePoses(r) ==
  /\ pc[r] = "estimate"
  /\ estimations[r] = NoEstimations
  /\ poseAnalyses' = [poseAnalyses EXCEPT ![r] =
                        [k \in 1..Len(frames[r]) |-> EstimateOf(r, k)]]
  /\ estimations' = [estimations EXCEPT ![r] =
                       [values |-> [k \in 1..Len(frames[r]) |-> EstimateOf(r, k)],
                        last |-> Len(frames[r])]]
  /\ pc' = [pc EXCEPT ![r] = "analyze"]
  /\ UNCHANGED <<video, framesDirs, frames, detectors, analysis, error, records,
                 response, forwarded, saveErrors, transition, triple>>

\* frames.map(async (frame) => ...): every estimation is started, none has
\* settled
StartEstimations(r) ==
  /\ pc[r] = "estimate"
  /\ estimations[r] = NoEstimations
  /\ estimations' = [estimations EXCEPT ![r] =
                       [values |-> [k \in 1..Len(frames[r]) |-> Pending], last |-> 0]]
  /\ pc' = [pc EXCEPT ![r] = "join"]
  /\ UNCHANGED <<video, framesDirs, frames, poseAnalyses, detectors, analysis, error,
                 records, response, forwarded, saveErrors, transition, triple>>

\* The estimation of the frame at position k settles.  The estimations run
\* concurrently and settle in any order; here a frame settles while at most
\* MaxOutOfOrder - 1 earlier frames are still pending.
EstimateFrame(r, k) ==
  /\ pc[r] = "join"
  /\ k \in 1..Len(frames[r])
  /\ estimations[r].values[k] = Pending
  /\ Cardinality({j \in 1..(k - 1) : estimations[r].values[j] = Pending}) < MaxOutOfOrder
  /\ estimations' = [estimations EXCEPT ![r] =
                       [values |-> Settle(estimations[r].values, k, EstimateOf(r, k)),
                        last |-> k]]
  /\ UNCHANGED <<video, pc, framesDirs, frames, poseAnalyses, detectors, analysis, error,
                 records, response, forwarded, saveErrors, transition, triple>>

\* const poseAnalyses = await Promise.all(...): the await returns the values
JoinPoses(r) ==
  /\ pc[r] = "join"
  /\ AllSettled(estimations[r].values)
  /\ poseAnalyses' = [poseAnalyses EXCEPT ![r] = estimations[r].values]
  /\ pc' = [pc EXCEPT ![r] = "analyze"]
  /\ UNCHANGED <<video, framesDirs, frames, detectors, analysis, error, records,
                 response, forwarded, saveErrors, estimations, transition, triple>>

\* the rest of analyzeSRTVideo: it returns the report or throws
Analyze(r) ==
  /\ pc[r] = "analyze"
  /\ LET result == analyzeSRTVideoAfterJoin(frames[r],
                     [k \in 1..Len(poseAnalyses[r]) |-> PoseOf(poseAnalyses[r][k])])
     IN  /\ analysis' = [analysis EXCEPT ![r] = result]
         /\ error' = [error EXCEPT ![r] = result.message]
         /\ pc' = [pc EXCEPT ![r] = IF result.ok THEN "save" ELSE "saveFailed"]
  /\ UNCHANGED <<video, framesDirs, frames, poseAnalyses, detectors, records,
                 response, forwarded, saveErrors, estimations, transition, triple>>

\* await result.save(): the store accepts the document or the save throws
SaveResult(r) ==
  /\ pc[r] = "save"
  /\ \E saved \in BOOLEAN :
       IF saved
         THEN /\ records' = Append(records, CompletedRecord(r, analysis[r]))
              /\ pc' = [pc EXCEPT ![r] = "cleanup"]
              /\ UNCHANGED error
         ELSE /\ error' = [error EXCEPT ![r] = SAVE_ERROR]
              /\ pc' = [pc EXCEPT ![r] = "saveFailed"]
              /\ UNCHANGED records
  /\ UNCHANGED <<video, framesDirs, frames, poseAnalyses, detectors, analysis,
                 response, forwarded, saveErrors, estimations, transition, triple>>

\* cleanupFrames(framePaths): removes the directory of framePaths[0]; nothing
\* when the list is empty.
cleanupFrames(dirs, r, framePaths) == IF Len(framePaths) = 0 THEN dirs ELSE dirs \ {r}

Cleanup(r) ==
  /\ pc[r] = "cleanup"
  /\ framesDirs' = cleanupFrames(framesDirs, r, analysis[r].keyFrames)
  /\ pc' = [pc EXCEPT ![r] = "respond"]
  /\ UNCHANGED <<video, frames, poseAnalyses, detectors, analysis, error, records,
                 response, forwarded, saveErrors, estimations, transition, triple>>

\* res.json({success: true, reportId, data})
Respond(r) ==
  /\ pc[r] = "respond"
  /\ LET saved == CHOOSE k \in 1..Len(records) :
                    records[k].req = r /\ records[k].processingStatus = "completed"
     IN  response' = [response EXCEPT ![r] =
           [success |-> TRUE, reportId |-> saved,
            data |-> [sitScore |-> records[saved].sitScore,
                      riseScore |-> records[saved].riseScore,
                      totalScore |-> records[saved].totalScore,
                      posturalControl |-> records[saved].posturalControl,
                      balance |-> records[saved].balance,
                      coordination |-> records[saved].coordination,
                      feedback |-> records[saved].feedback]]]
  /\ pc' = [pc EXCEPT ![r] = "done"]
  /\ UNCHANGED <<video, framesDirs, frames, poseAnalyses, detectors, analysis, error,
                 records, forwarded, saveErrors, estimations, transition, triple>>

\* catch (error): try { await failedResult.save() } catch (saveError) { log }
SaveFailedRecord(r) ==
  /\ pc[r] = "saveFailed"
  /\ \E saved \in BOOLEAN :
       IF saved
         THEN records' = Append(records, FailedRecord(r)) /\ UNCHANGED saveErrors
         ELSE saveErrors' = saveErrors \cup {r} /\ UNCHANGED records
  /\ pc' = [pc EXCEPT ![r] = "forward"]
  /\ UNCHANGED <<video, framesDirs, frames, poseAnalyses, detectors, analysis, error,
                 response, forwarded, estimations, transition, triple>>

\* next(error)
ForwardError(r) ==
  /\ pc[r] = "forward"
  /\ forwarded' = [forwarded EXCEPT ![r] = error[r]]
  /\ pc' = [pc EXCEPT ![r] = "done"]
  /\ UNCHANGED <<video, framesDirs, frames, poseAnalyses, detectors, analysis, error,
                 records, response, saveErrors, estimations, transition, triple>>

Next ==
  \E r \in Requests :
    \/ ExtractFrames(r)
    \/ InitializeDetector(r)
    \/ EstimatePoses(r)
    \/ Analyze(r)
    \/ SaveResult(r)
    \/ Cleanup(r)
    \/ Respond(r)
    \/ SaveFailedRecord(r)
    \/ ForwardError(r)

Spec == Init /\ [][Next]_vars
SpecScore == InitScore /\ [][Next]_vars
SpecSample == InitSample /\ [][Next]_vars

\* The same handler with the pose estimations of a run settling one by one.
NextJoin ==
  \E r \in Requests :
    \/ ExtractFrames(r)
    \/ InitializeDetector(r)
    \/ StartEstimations(r)
    \/ \E k \in 1..CONFIG_MAX_FRAMES : EstimateFrame(r, k)
    \/ JoinPoses(r)
    \/ Analyze(r)
    \/ SaveResult(r)
    \/ Cleanup(r)
    \/ Respond(r)
    \/ SaveFailedRecord(r)
    \/ ForwardError(r)

SpecJoin == InitJoin /\ [][NextJoin]_vars

(***************************************************************************)
(* detectPhaseTransition on its own, applied to pose sequences of every    *)
(* length up to MaxPoses, shorter than analyzeSRTVideo accepts included.   *)
(***************************************************************************)
MaxPoses == 11

\* a pose with a confident right hip and one without
TransitionKinds == {1, 8}

TransitionInputs == UNION {[1..n -> TransitionKinds] : n \in 0..MaxPoses}

InitTransition ==
  /\ video = [r \in Requests |-> NoVideo]
  /\ pc = [r \in Requests |-> "absent"]
  /\ framesDirs = {}
  /\ frames = [r \in Requests |-> << >>]
  /\ poseAnalyses = [r \in Requests |-> << >>]
  /\ detectors = 0
  /\ analysis = [r \in Requests |-> NoAnalysis]
  /\ error = [r \in Requests |-> ""]
  /\ records = << >>
  /\ response = [r \in Requests |-> NoResponse]
  /\ forwarded = [r \in Requests |-> ""]
  /\ saveErrors = {}
  /\ estimations = [r \in Requests |-> NoEstimations]
  /\ \E poses \in TransitionInputs :
       transition = [called |-> FALSE, poses |-> poses, result |-> 0]
  /\ triple = NoTriple

\* const transitionFrame = detectPhaseTransition(poses)
DetectTransition ==
  /\ ~transition.called
  /\ transition' =
       [called |-> TRUE,
        poses |-> transition.poses,
        result |-> detectPhaseTransition(
                     [k \in 1..Len(transition.poses) |-> PoseOf(transition.poses[k])])]
  /\ UNCHANGED <<video, pc, framesDirs, frames, poseAnalyses, detectors, analysis, error,
                 records, response, forwarded, saveErrors, estimations, triple>>

NextTransition == DetectTransition

SpecTransition == InitTransition /\ [][NextTransition]_vars

(***************************************************************************)
(* calculateAngle on its own, applied to a middle point and two end points *)
(* on the eight compass rays around it, at distances below and above one   *)
(* pixel, and to missing points and points with a NaN coordinate.          *)
(***************************************************************************)
\* offsets from the middle point along a ray, in quarters of a pixel
AngleOffsets == {2, 3, 4, 8}

AngleMiddle == P(100, 100, 90)

AngleEnds ==
  {Kp(Add(Num(100), Rat(sx * m, 4)), Add(Num(100), Rat(sy * m, 4)), 90) :
     sx \in {-1, 0, 1}, sy \in {-1, 0, 1}, m \in AngleOffsets}
    \cup {Absent, Kp(NaN, Num(100), 90), Kp(Num(102), NaN, 90)}

AngleMiddles == {AngleMiddle, Absent, Kp(Num(100), NaN, 90)}

InitAngle ==
  /\ video = [r \in Requests |-> NoVideo]
  /\ pc = [r \in Requests |-> "absent"]
  /\ framesDirs = {}
  /\ frames = [r \in Requests |-> << >>]
  /\ poseAnalyses = [r \in Requests |-> << >>]
  /\ detectors = 0
  /\ analysis = [r \in Requests |-> NoAnalysis]
  /\ error = [r \in Requests |-> ""]
  /\ records = << >>
  /\ response = [r \in Requests |-> NoResponse]
  /\ forwarded = [r \in Requests |-> ""]
  /\ saveErrors = {}
  /\ estimations = [r \in Requests |-> NoEstimations]
  /\ transition = NoTransition
  /\ \E p1 \in AngleEnds, p2 \in AngleMiddles, p3 \in AngleEnds :
       triple = [called |-> FALSE, p1 |-> p1, p2 |-> p2, p3 |-> p3, result |-> NaN]

\* const angle = calculateAngle(p1, p2, p3)
CalculateAngle ==
  /\ ~triple.called
  /\ triple' = [triple EXCEPT !.called = TRUE,
                              !.result = calculateAngle(triple.p1, triple.p2, triple.p3)]
  /\ UNCHANGED <<video, pc, framesDirs, frames, poseAnalyses, detectors, analysis, error,
                 records, response, forwarded, saveErrors, estimations, transition>>

NextAngle == CalculateAngle

SpecAngle == InitAngle /\ [][NextAngle]_vars

(***************************************************************************)
(* Properties                                                              *)
(***************************************************************************)
\* analyzeSRTVideo has returned or thrown for request r
Returned(r) == pc[r] \in {"save", "saveFailed", "cleanup", "respond", "forward", "done"}

\* the frames of request r were extracted and their poses estimated
Estimated(r) == Returned(r) /\ video[r].decodable

\* the number of sampled frames of request r in which a pose was detected
DetectedCount(r) ==
  Cardinality({k \in 1..Len(poseAnalyses[r]) : poseAnalyses[r][k] # 0})

InRange(x, lo, hi) == ~IsNaN(x) /\ Ge(x, lo) /\ Le(x, hi)

\* C1: every report has sitScore and riseScore in [1.5, 5], totalScore in
\* [2, 10], and posturalControl, balance and coordination in [0, 1], none NaN.
C1_ScoresInRange ==
  \A r \in Requests :
    analysis[r].ok =>
      /\ InRange(analysis[r].sitScore, Rat(3, 2), Num(5))
      /\ InRange(analysis[r].riseScore, Rat(3, 2), Num(5))
      /\ InRange(analysis[r].totalScore, Num(2), Num(10))
      /\ InRange(analysis[r].posturalControl, Num(0), Num(1))
      /\ InRange(analysis[r].balance, Num(0), Num(1))
      /\ InRange(analysis[r].coordination, Num(0), Num(1))

\* A report whose sitting penalty is positive and whose sitting score rests on
\* the floor while a metric of the rising frames was NaN.
C1_Witness ==
  \E r \in Requests :
    /\ analysis[r].ok
    /\ Gt(analysis[r].locals.supportPenalty.sitting, Num(0))
    /\ Eq(analysis[r].sitScore, Rat(3, 2))
    /\ \E k \in 1..Len(poseAnalyses[r]) :
         IsNaN(RisingFrameOf[PoseOf(poseAnalyses[r][k])].stability.score)

\* C2: when fewer than 20 of the sampled frames yield a pose, analyzeSRTVideo
\* fails with the insufficient-frames error, which the caller can tell from
\* the error it catches, however many frames were sampled.
C2_InsufficientFramesIdentified ==
  \A r \in Requests :
    Estimated(r) /\ DetectedCount(r) < 2 * minFramesPerPhase =>
      /\ ~analysis[r].ok
      /\ analysis[r].message = INSUFFICIENT_FRAMES

\* C3: a frame without a detected pose is left out, and the run produces a
\* report when at least 20 detected poses remain.
C3_UndetectedFrameExcluded ==
  \A r \in Requests :
    Estimated(r) /\ DetectedCount(r) >= 2 * minFramesPerPhase => analysis[r].ok

\* C4: at most one pose detector is ever created in the process.
C4_DetectorCreatedOnce == detectors <= 1

\* C5: when the handler of a request has finished, on whatever path, the
\* frames directory of the request is gone.
C5_FramesDeleted ==
  \A r \in Requests : pc[r] = "done" => r \notin framesDirs

\* C6: a run ends with a report, a decode error or the insufficient-frames
\* error, and with nothing else.
C6_ThreeOutcomes ==
  \A r \in Requests :
    Returned(r) =>
      \/ analysis[r].ok
      \/ analysis[r].cause \in {DECODE_ERROR, INSUFFICIENT_FRAMES}

\* analyzeSRTVideo threw for request r and the handler has finished
FailedRun(r) == pc[r] = "done" /\ ~analysis[r].ok

ZeroFailedRecord(rec, r) ==
  /\ rec.req = r
  /\ rec.processingStatus = "failed"
  /\ rec.sitScore = Num(0)
  /\ rec.riseScore = Num(0)
  /\ rec.totalScore = Num(0)
  /\ rec.posturalControl = Num(0)
  /\ rec.balance = Num(0)
  /\ rec.coordination = Num(0)

RecordsOf(r) == {k \in 1..Len(records) : records[k].req = r}

\* C7 as stated: whenever analyzeSRTVideo fails, a failed record with zero
\* scores is persisted, no completed record is, no success response is sent
\* and the error is forwarded.
C7_FailedRecordAlwaysPersisted ==
  \A r \in Requests :
    FailedRun(r) =>
      /\ \E k \in RecordsOf(r) : ZeroFailedRecord(records[k], r)
      /\ \A k \in RecordsOf(r) : records[k].processingStatus # "completed"
      /\ ~response[r].success
      /\ forwarded[r] = FAILED_TO_ANALYZE

C7_FailureHandled ==
  \A r \in Requests :
    FailedRun(r) =>
      /\ \/ r \in saveErrors /\ RecordsOf(r) = {}
         \/ /\ r \notin saveErrors
            /\ Cardinality(RecordsOf(r)) = 1
            /\ \A k \in RecordsOf(r) : ZeroFailedRecord(records[k], r)
      /\ ~response[r].success
      /\ forwarded[r] = FAILED_TO_ANALYZE

C7_RecordsKept ==
  /\ Len(records') >= Len(records)
  /\ \A k \in 1..Len(records) : records'[k] = records[k]

\* C7: whenever analyzeSRTVideo fails, the handler persists exactly one
\* record for the request, marked failed with all six scores 0, unless saving
\* that record fails too, which is only logged and leaves no record; either
\* way no completed record is persisted, no success response is sent and the
\* error is forwarded; and a persisted record is never changed afterwards.
C7_FailureRecorded == []C7_FailureHandled /\ [][C7_RecordsKept]_vars

\* A failed run whose failed record was persisted while another request's
\* completed record is in the store.
C7_Witness ==
  \E r \in Requests :
    /\ FailedRun(r)
    /\ \E k \in RecordsOf(r) : ZeroFailedRecord(records[k], r)
    /\ \E k \in 1..Len(records) : records[k].processingStatus = "completed"

\* C8: in every run over at least 20 poses the sitting and the rising
\* sub-sequences each hold at least 10 poses.
C8_PhasesHaveTenPoses ==
  \A r \in Requests :
    analysis[r].ok =>
      /\ Len(analysis[r].locals.sittingIdx) >= minFramesPerPhase
      /\ Len(analysis[r].locals.risingIdx) >= minFramesPerPhase

\* A run whose detected transition lies before the tenth pose: the sitting
\* slice is stretched to ten poses and the rising slice holds more.
C8_Witness ==
  \E r \in Requests :
    /\ analysis[r].ok
    /\ analysis[r].performance.transitionFrame < minFramesPerPhase
    /\ Len(analysis[r].locals.sittingIdx) = minFramesPerPhase
    /\ Len(analysis[r].locals.risingIdx) > minFramesPerPhase

\* C9: sampleFrames returns at most 40 frames; from more than 40 frames it
\* returns a strictly increasing selection that starts with the first
\* extracted frame and ends with the last.
C9_SampleBounded ==
  \A r \in Requests :
    Estimated(r) \/ pc[r] \in {"initializeDetector", "estimate", "analyze"} =>
      /\ Len(frames[r]) <= CONFIG_MAX_FRAMES
      /\ \A k \in 1..Len(frames[r]) : frames[r][k] \in 1..video[r].extracted
      /\ video[r].extracted > CONFIG_MAX_FRAMES =>
           /\ frames[r][1] = 1
           /\ frames[r][Len(frames[r])] = video[r].extracted
           /\ \A k \in 1..(Len(frames[r]) - 1) : frames[r][k] < frames[r][k + 1]

\* 80 extracted frames sampled down to exactly 40.
C9_Witness ==
  \E r \in Requests :
    /\ pc[r] = "initializeDetector"
    /\ video[r].extracted = 2 * CONFIG_MAX_FRAMES
    /\ Len(frames[r]) = CONFIG_MAX_FRAMES

SupportSets == SUBSET {"HAND", "KNEE"}

\* the penalties of a run whose sitting frames show the supports sitting and
\* whose rising frames show the supports rising
PenaltyOf(sitting, rising) ==
  [sitting |-> calculatePhasePenalty(<<sitting>>),
   rising |-> calculatePhasePenalty(<<rising>>)]

HandNeverRaises(sittingScores, risingScores) ==
  \A own \in {S \in SupportSets : "HAND" \in S}, other \in SupportSets :
    LET sitNone == calculatePhaseScores(sittingScores, risingScores, PenaltyOf({}, other))
        sitHand == calculatePhaseScores(sittingScores, risingScores, PenaltyOf(own, other))
        riseNone == calculatePhaseScores(sittingScores, risingScores, PenaltyOf(other, {}))
        riseHand == calculatePhaseScores(sittingScores, risingScores, PenaltyOf(other, own))
    IN  /\ Le(sitHand.sitScore, sitNone.sitScore)
        /\ Eq(sitHand.riseScore, sitNone.riseScore)
        /\ Le(riseHand.riseScore, riseNone.riseScore)
        /\ Eq(riseHand.sitScore, riseNone.sitScore)

\* C10: for the metric averages of any report analyzeSRTVideo returns, a
\* phase whose support set goes from empty to one with HAND gets a final
\* score that is no higher, and the other phase's final score stays the same.
C10_HandPenaltyMonotonic ==
  \A r \in Requests :
    pc[r] = "save" => HandNeverRaises(analysis[r].sittingPhase, analysis[r].risingPhase)

\* Metric averages for which a hand support lowers the sitting score
\* strictly and the rising score strictly.
C10_Witness ==
  \E r \in Requests :
    /\ pc[r] = "save"
    /\ Lt(calculatePhaseScores(analysis[r].sittingPhase, analysis[r].risingPhase,
                               PenaltyOf({"HAND"}, {})).sitScore,
          calculatePhaseScores(analysis[r].sittingPhase, analysis[r].risingPhase,
                               PenaltyOf({}, {})).sitScore)
    /\ Lt(calculatePhaseScores(analysis[r].sittingPhase, analysis[r].risingPhase,
                               PenaltyOf({}, {"HAND"})).riseScore,
          calculatePhaseScores(analysis[r].sittingPhase, analysis[r].risingPhase,
                               PenaltyOf({}, {})).riseScore)

\* C11: transition detection and phase segmentation of a run start only
\* after every pose estimation of the run has settled, and they receive the
\* poses in frame order, whatever the order in which the estimations settled.
C11_JoinBarrier ==
  \A r \in Requests :
    /\ pc[r] = "join" => poseAnalyses[r] = << >> /\ analysis[r] = NoAnalysis
    /\ pc[r] = "analyze" \/ Estimated(r) =>
         /\ AllSettled(estimations[r].values)
         /\ Len(poseAnalyses[r]) = Len(frames[r])
         /\ \A k \in 1..Len(frames[r]) : poseAnalyses[r][k] = EstimateOf(r, k)

\* A run that returned its report although the estimation that settled last
\* was not the last frame's.
C11_Witness ==
  \E r \in Requests :
    /\ pc[r] = "save"
    /\ analysis[r].ok
    /\ estimations[r].last # Len(frames[r])

\* the poses of the frames of request r, in frame order
PosesOf(r) == [k \in 1..Len(poseAnalyses[r]) |-> PoseOf(poseAnalyses[r][k])]

\* 0.5 * progress + 0.3 * (trunkAngle / 180) + 0.2 * (1 - misalignment), or
\* the default when that is no valid score
HipDriveCombined(pose) ==
  LET shoulder == Find(pose, "right_shoulder")
      hip == Find(pose, "right_hip")
      knee == Find(pose, "right_knee")
      ankle == Find(pose, "right_ankle")
      progress == MathMax(Num(0), MathMin(Num(1),
                    Div(Sub(ankle.y, hip.y), Sub(ankle.y, shoulder.y))))
      misalignment == Div(MathAbs(Sub(hip.x, ankle.x)), pose.width)
      trunk == MathMax(Num(0), MathMin(Num(1),
                 Div(calculateAngle(shoulder, hip, knee), Num(180))))
  IN  safeScore(Add(Add(Mul(progress, Rat(5, 10)), Mul(trunk, Rat(3, 10))),
                    Mul(Sub(Num(1), misalignment), Rat(2, 10))),
                SCORE_CONFIG.DEFAULT_HIP_DRIVE)

HipDriveExpected(pose) ==
  IF \E name \in {"right_shoulder", "right_hip", "right_knee", "right_ankle"} :
       ~Confident(Find(pose, name))
    THEN SCORE_CONFIG.DEFAULT_HIP_DRIVE
  ELSE IF Eq(Find(pose, "right_ankle").y, Find(pose, "right_shoulder").y)
    THEN SCORE_CONFIG.DEFAULT_HIP_DRIVE
  ELSE HipDriveCombined(pose)

\* C12: the hip drive of every analysed frame is the default 0.3 when one of
\* shoulder, hip, knee, ankle is missing or not confident or when ankle and
\* shoulder are level, and otherwise, an upright subject included, the
\* combined value 0.5 * progress + 0.3 * (trunkAngle / 180) + 0.2 * (1 -
\* misalignment) (0.3 when that is no valid score).
C12_HipDriveFormula ==
  \A r \in Requests :
    pc[r] = "save" =>
      \A k \in 1..Len(poseAnalyses[r]) :
        Eq(RisingFrameOf[PosesOf(r)[k]].hipDrive.score, HipDriveExpected(PosesOf(r)[k]))

\* some landmark of names is absent from the pose or has confidence <= 0.3
Unavailable(pose, names) == \E name \in names : ~Confident(Find(pose, name))

LegLandmarks == {"right_hip", "right_knee", "right_ankle"}
TrunkLandmarks == {"right_shoulder", "right_hip", "right_knee"}
StanceLandmarks == {"right_ankle", "right_hip", "right_shoulder"}

\* C13: knee flexion, knee extension, spinal alignment, hip control and
\* stability of an analysed frame are 0 whenever a landmark the metric needs
\* is absent from the pose or has confidence not above 0.3.
C13_UnavailableLandmarkScoresZero ==
  \A r \in Requests :
    pc[r] = "save" =>
      \A k \in 1..Len(poseAnalyses[r]) :
        LET pose == PosesOf(r)[k]
        IN  /\ Unavailable(pose, LegLandmarks) =>
                 /\ Eq(SittingFrameOf[pose].kneeFlexion.score, Num(0))
                 /\ Eq(RisingFrameOf[pose].kneeExtension.score, Num(0))
            /\ Unavailable(pose, TrunkLandmarks) =>
                 /\ Eq(SittingFrameOf[pose].spinalAlignment.score, Num(0))
                 /\ Eq(SittingFrameOf[pose].hipControl.score, Num(0))
            /\ Unavailable(pose, StanceLandmarks) =>
                 Eq(RisingFrameOf[pose].stability.score, Num(0))

\* calculateAngle returns 0 for these three landmarks of the pose because
\* they are degenerate: a coordinate is not a number, or two of them are
\* closer than one pixel
DegenerateAngle(pose, first, middle, last) ==
  /\ Find(pose, first).present /\ Find(pose, middle).present /\ Find(pose, last).present
  /\ ~validatePoints(Find(pose, first), Find(pose, middle), Find(pose, last))

\* C14: when calculateAngle returns 0 for degenerate landmarks, no metric
\* built on that angle is maximal: knee flexion, knee extension, spinal
\* alignment and hip control stay below 1.
C14_DegenerateAngleScoresLow ==
  \A r \in Requests :
    pc[r] = "save" =>
      \A k \in 1..Len(poseAnalyses[r]) :
        LET pose == PosesOf(r)[k]
        IN  /\ DegenerateAngle(pose, "right_hip", "right_knee", "right_ankle") =>
                 /\ Lt(SittingFrameOf[pose].kneeFlexion.score, Num(1))
                 /\ Lt(RisingFrameOf[pose].kneeExtension.score, Num(1))
            /\ DegenerateAngle(pose, "right_shoulder", "right_hip", "right_knee") =>
                 /\ Lt(SittingFrameOf[pose].spinalAlignment.score, Num(1))
                 /\ Lt(SittingFrameOf[pose].hipControl.score, Num(1))

\* the per-frame scores of one metric over the frames of a phase of request r
SittingScoresOf(r, metric) ==
  LET idx == analysis[r].locals.sittingIdx
  IN  [k \in 1..Len(idx) |-> SittingFrameOf[At(PosesOf(r), idx[k])][metric].score]

RisingScoresOf(r, metric) ==
  LET idx == analysis[r].locals.risingIdx
  IN  [k \in 1..Len(idx) |-> RisingFrameOf[At(PosesOf(r), idx[k])][metric].score]

\* the mean of the scores that are numbers, 0.3 when fewer than 3 are
MeanOfValid(scores) ==
  LET valid == SelectSeq(scores, IsNumber)
  IN  IF Len(valid) >= 3 THEN average(valid) ELSE Rat(3, 10)

\* C15: each per-phase metric average of a report is the mean of the
\* non-NaN per-frame scores of the metric over the phase's frames, and 0.3
\* when fewer than 3 of them are not NaN.
C15_PhaseAverageOfValid ==
  \A r \in Requests :
    pc[r] = "save" =>
      /\ \A metric \in {"kneeFlexion", "hipControl", "spinalAlignment"} :
           Eq(analysis[r].sittingPhase[metric], MeanOfValid(SittingScoresOf(r, metric)))
      /\ \A metric \in {"kneeExtension", "hipDrive", "stability"} :
           Eq(analysis[r].risingPhase[metric], MeanOfValid(RisingScoresOf(r, metric)))

\* the support sets of the frames of request r at the 0-based positions idx
SupportsAt(r, idx) ==
  [k \in 1..Len(idx) |-> At(analysis[r].supportPointsUsed, idx[k])]

\* C16: the sitting penalty of a report is computed from the supports seen in
\* the frames of its sitting phase, poses[0 .. max(10, transition)), the
\* rising penalty from those of its rising phase, poses[min(n - 10,
\* transition) .. n), and each is one of 0, 0.5, 1, 1.5.
C16_PenaltyByPhase ==
  \A r \in Requests :
    pc[r] = "save" =>
      LET penalty == analysis[r].locals.supportPenalty
      IN  /\ Eq(penalty.sitting,
                calculatePhasePenalty(SupportsAt(r, analysis[r].locals.sittingIdx)))
          /\ Eq(penalty.rising,
                calculatePhasePenalty(SupportsAt(r, analysis[r].locals.risingIdx)))
          /\ \A p \in {penalty.sitting, penalty.rising} :
               \E q \in {Num(0), Rat(1, 2), Num(1), Rat(3, 2)} : Eq(p, q)

Contains(seq, x) == \E k \in 1..Len(seq) : seq[k] = x

NoSupportsStrength == "Excellent form - no supports needed"

\* the improvements that report supports, and the support types each names
SupportImprovements ==
  {"Used HAND for support", "Used KNEE for support",
   "Used HAND and KNEE for support", "Used KNEE and HAND for support"}

TypesNamed(text) ==
  CASE text = "Used HAND for support" -> {"HAND"}
    [] text = "Used KNEE for support" -> {"KNEE"}
    [] OTHER -> {"HAND", "KNEE"}

\* the support types that contribute to a phase penalty: 1.0 for HAND plus
\* 0.5 for KNEE
TypesOfPenalty(penalty) ==
  (IF Ge(penalty, Num(1)) THEN {"HAND"} ELSE {})
    \cup (IF Eq(penalty, Rat(1, 2)) \/ Eq(penalty, Rat(3, 2)) THEN {"KNEE"} ELSE {})

\* no wrist and no knee keypoint of the pose has confidence above 0.3
NoSupportLandmark(pose) ==
  \A name \in {"left_wrist", "right_wrist", "left_knee", "right_knee"} :
    ~Confident(Find(pose, name))

\* C17: the feedback of a report holds the "no supports needed" strength
\* exactly when both phase penalties are 0, and otherwise exactly one support
\* improvement, which names exactly the support types that contribute to a
\* phase penalty; and when no wrist or knee keypoint of any frame is
\* confident, every support set is empty, both penalties are 0 and the
\* strength is present.
C17_FeedbackAgreesWithPenalty ==
  \A r \in Requests :
    pc[r] = "save" =>
      LET penalty == analysis[r].locals.supportPenalty
          feedback == analysis[r].feedback
          unpenalised == Eq(penalty.sitting, Num(0)) /\ Eq(penalty.rising, Num(0))
          named == {k \in 1..Len(feedback.improvements) :
                      feedback.improvements[k] \in SupportImprovements}
      IN  /\ Contains(feedback.strengths, NoSupportsStrength) <=> unpenalised
          /\ unpenalised => named = {}
          /\ ~unpenalised =>
               /\ Cardinality(named) = 1
               /\ \A k \in named :
                    TypesNamed(feedback.improvements[k])
                      = TypesOfPenalty(penalty.sitting) \cup TypesOfPenalty(penalty.rising)
          /\ (\A k \in 1..Len(poseAnalyses[r]) : NoSupportLandmark(PosesOf(r)[k])) =>
               /\ \A k \in 1..Len(poseAnalyses[r]) : analysis[r].supportPointsUsed[k] = {}
               /\ unpenalised
               /\ Contains(feedback.strengths, NoSupportsStrength)

\* A report whose sitting half used a hand and whose rising half used a knee,
\* with the improvement that names both.
C17_Witness ==
  \E r \in Requests :
    /\ pc[r] = "save"
    /\ Eq(analysis[r].locals.supportPenalty.sitting, Num(1))
    /\ Eq(analysis[r].locals.supportPenalty.rising, Rat(1, 2))
    /\ Contains(analysis[r].feedback.improvements, "Used HAND and KNEE for support")

\* A report of a run in which no wrist or knee keypoint is confident: the
\* strength is present.
C17_WitnessNoLandmark ==
  \E r \in Requests :
    /\ pc[r] = "save"
    /\ \A k \in 1..Len(poseAnalyses[r]) : NoSupportLandmark(PosesOf(r)[k])
    /\ Contains(analysis[r].feedback.strengths, NoSupportsStrength)

\* clamp(max(1.5, raw) - 0.6 * phasePenalty, 1.5, 5), rounded to 2 decimals
CanonicalScore(raw, phasePenalty) ==
  ToFixed2(MathMax(Rat(3, 2),
             MathMin(Num(5),
               Sub(MathMax(Rat(3, 2), raw), Mul(Rat(6, 10), phasePenalty)))))

\* the weighted sums of the phase averages, on the 0..5 scale
RawSit(phase) ==
  Mul(Add(Add(Mul(Rat(35, 100), phase.kneeFlexion), Mul(Rat(35, 100), phase.hipControl)),
          Mul(Rat(30, 100), phase.spinalAlignment)),
      Num(5))

RawRise(phase) ==
  Mul(Add(Add(Mul(Rat(30, 100), phase.kneeExtension), Mul(Rat(40, 100), phase.hipDrive)),
          Mul(Rat(30, 100), phase.stability)),
      Num(5))

CompletedRecordsOf(r) ==
  {k \in 1..Len(records) :
     records[k].req = r /\ records[k].processingStatus = "completed"}

\* C18: the sitScore and riseScore of every returned report, and of every
\* completed record saved from it, are those of the canonical formula
\* applied to the report's phase averages and the phase penalties; the
\* scores computed in line (factor 0.8, floor 1) are in neither.
C18_CanonicalScoresReturned ==
  \A r \in Requests :
    analysis[r].ok =>
      LET a == analysis[r]
          sit == CanonicalScore(RawSit(a.sittingPhase), a.locals.supportPenalty.sitting)
          rise == CanonicalScore(RawRise(a.risingPhase), a.locals.supportPenalty.rising)
      IN  /\ a.sitScore = sit
          /\ a.riseScore = rise
          /\ \A k \in CompletedRecordsOf(r) :
               records[k].sitScore = sit /\ records[k].riseScore = rise

\* A saved report whose in-line scores both differ from the canonical ones.
C18_Witness ==
  \E r \in Requests :
    /\ analysis[r].ok
    /\ CompletedRecordsOf(r) # {}
    /\ ~Eq(analysis[r].locals.inlineScores.sitScore, analysis[r].sitScore)
    /\ ~Eq(analysis[r].locals.inlineScores.riseScore, analysis[r].riseScore)
    /\ \A k \in CompletedRecordsOf(r) :
         /\ ~Eq(analysis[r].locals.inlineScores.sitScore, records[k].sitScore)
         /\ ~Eq(analysis[r].locals.inlineScores.riseScore, records[k].riseScore)

\* the mean of 1.3 x (sitting spinalAlignment average) and
\* 1.2 x (rising stability average), clamped to [0, 1]
PosturalControlOfAverages(sittingScores, risingScores) ==
  Clamp01(Div(Add(Mul(Rat(13, 10), sittingScores.spinalAlignment),
                  Mul(Rat(12, 10), risingScores.stability)),
              Num(2)))

\* C19: the posturalControl of every report is the clamped mean of 1.3 times
\* the sitting phase's spinalAlignment average and 1.2 times the rising
\* phase's stability average, whatever the sizes of the two phases.
C19_PosturalControlMeanOfAverages ==
  \A r \in Requests :
    pc[r] = "save" =>
      Eq(analysis[r].posturalControl,
         PosturalControlOfAverages(analysis[r].sittingPhase, analysis[r].risingPhase))

\* the right hips of poses i-1, i and i+1 (0-based) are all confident
ConfidentTriple(poses, i) ==
  \A j \in {i - 1, i, i + 1} : Confident(Find(PoseOf(At(poses, j)), "right_hip"))

Missing(p) == ~p.present
NonNumeric(p) == p.present /\ (IsNaN(p.x) \/ IsNaN(p.y))

\* two points with numeric coordinates less than one pixel apart
Close(p, q) ==
  /\ p.present /\ q.present
  /\ ~NonNumeric(p) /\ ~NonNumeric(q)
  /\ Lt(Dist2(p, q), Num(1))

\* the inputs for which the angle is to be exactly 0
ZeroAngleCase(p1, p2, p3) ==
  \/ Missing(p1) \/ Missing(p2) \/ Missing(p3)
  \/ NonNumeric(p1) \/ NonNumeric(p2) \/ NonNumeric(p3)
  \/ Close(p1, p2) \/ Close(p2, p3) \/ Close(p1, p3)

\* C21: calculateAngle returns exactly 0 when a point is missing, a
\* coordinate is not a number or two of the three points (p1 and p3
\* included) are less than one pixel apart, and a value in [0, 360]
\* otherwise.
C21_AngleZeroOrInRange ==
  triple.called =>
    IF ZeroAngleCase(triple.p1, triple.p2, triple.p3)
      THEN Eq(triple.result, Num(0))
      ELSE Ge(triple.result, Num(0)) /\ Le(triple.result, Num(360))

Range(seq) == {seq[k] : k \in 1..Len(seq)}

\* idx holds the first Len(idx) of the indices 0 .. n-1, in order
IsPrefixOf(idx, n) == Len(idx) <= n /\ \A k \in 1..Len(idx) : idx[k] = k - 1

\* idx holds the last Len(idx) of the indices 0 .. n-1, in order
IsSuffixOf(idx, n) == Len(idx) <= n /\ \A k \in 1..Len(idx) : idx[k] = n - Len(idx) + k - 1

Covers(sittingIdx, risingIdx, n) == Range(sittingIdx) \cup Range(risingIdx) = 0..(n - 1)

\* C22: in every run over n >= 20 poses the sitting phase is a prefix and
\* the rising phase a suffix of the pose sequence and every pose index is in
\* one of them; the same holds for the slices of every transition index
\* 0 .. n, not only the detected one.
C22_PhasesCoverSequence ==
  \A r \in Requests :
    pc[r] = "save" =>
      LET n == Len(poseAnalyses[r])
      IN  /\ n >= 2 * minFramesPerPhase
          /\ IsPrefixOf(analysis[r].locals.sittingIdx, n)
          /\ IsSuffixOf(analysis[r].locals.risingIdx, n)
          /\ Covers(analysis[r].locals.sittingIdx, analysis[r].locals.risingIdx, n)
          /\ \A t \in 0..n :
               LET sittingIdx == Slice(Indices(n), 0, SittingEnd(n, t))
                   risingIdx == Slice(Indices(n), RisingStart(n, t), n)
               IN  /\ IsPrefixOf(sittingIdx, n)
                   /\ IsSuffixOf(risingIdx, n)
                   /\ Covers(sittingIdx, risingIdx, n)

\* A run over more than 20 poses whose transition lies in the last ten: the
\* rising slice is stretched back over poses of the sitting slice, and no
\* pose is left out.
C22_Witness ==
  \E r \in Requests :
    /\ analysis[r].ok
    /\ Len(poseAnalyses[r]) > 2 * minFramesPerPhase
    /\ analysis[r].performance.transitionFrame > Len(poseAnalyses[r]) - minFramesPerPhase
    /\ Range(analysis[r].locals.sittingIdx) \cap Range(analysis[r].locals.risingIdx) # {}
    /\ Covers(analysis[r].locals.sittingIdx, analysis[r].locals.risingIdx,
              Len(poseAnalyses[r]))

====
